---- MODULE Spec2Model ----
(***************************************************************************)
(* Model of the Rhythm Game API of src/app.py: seven in-memory tables and  *)
(* the request handlers that read and write them.                          *)
(*                                                                         *)
(* Every handler is an `async def` without a single `await`, so on the     *)
(* event loop a handler runs from its first line to its return (or raise)  *)
(* without another handler running in between: one handler is one action.  *)
(* A request is in flight before its handler runs (the body is parsed) and *)
(* after (the response is sent); ConcSpec models that with `inflight`.     *)
(*                                                                         *)
(* Request bodies are drawn from small sets of whole payloads; the fields  *)
(* of a payload that no handler inspects are carried as given.             *)
(***************************************************************************)
EXTENDS Integers, Sequences, FiniteSets, TLC

\* ---- bounds --------------------------------------------------------------
MaxUsers == 2
MaxSongs == 1
MaxSessions == 1
MaxPurchases == 2
MaxAdmins == 2
MaxClock == 1
MaxRecords == 3
MaxCommerceRecords == 4

\* ---- values --------------------------------------------------------------
\* Optional[T]: None is the empty sequence, a present value x is <<x>>.
None == <<>>

Some(x) == <<x>>

UserIds == 1..MaxUsers

SongIds == 1..MaxSongs

SessionIds == 1..MaxSessions

PurchaseIds == 1..MaxPurchases

AdminIds == 1..MaxAdmins

Emails == {"a@x.com", "b@x.com"}

Names == {"ann"}

EntitlementSource == {"purchase", "promo", "admin", "default"}

AdminRole == {"editor", "publisher", "superadmin"}

UserCreate == [name : Names, email : Emails]

\* exclude_unset: a patch is the set of fields the request carried.
UserUpdate == {<<>>} \cup {[email |-> e] : e \in Emails}

SongCreate ==
    {[title |-> "t", artist |-> "ar", bpm |-> 120, durationSeconds |-> 180,
      beatmapJson |-> "{}", audioPath |-> "/a", coverPath |-> None,
      version |-> "1.0", isPublished |-> FALSE]}

SongUpdate == {<<>>, [isPublished |-> TRUE]}

UserEntitlementCreate ==
    [userId : UserIds, songId : SongIds, source : {"promo"}]

PerformanceMetricCreate ==
    {[score |-> sc, accuracy |-> 95, maxCombo |-> None, modifiers |-> None,
      replayHash |-> None, signature |-> None] : sc \in {10}}

GameplaySessionCreate ==
    {[userId |-> u, songId |-> s, songVersion |-> "1.0", clientVersion |-> "c",
      endedAt |-> None, deviceInfo |-> None, isSynced |-> FALSE]
        : u \in UserIds, s \in SongIds}

GameplaySessionUpdate == {<<>>, [isSynced |-> TRUE]}

PurchaseCreate ==
    {[userId |-> u, songId |-> s, priceCents |-> 999, currency |-> "USD",
      paymentProcessor |-> None, paymentReference |-> None, refunded |-> FALSE]
        : u \in UserIds, s \in SongIds}

PurchaseUpdate == {<<>>, [refunded |-> TRUE]}

AdminCreate == [userId : UserIds, role : {"editor"}]

AdminUpdate == {[role |-> None], [role |-> Some("publisher")]}

\* ---- state ---------------------------------------------------------------
VARIABLES users_db, songs_db, user_entitlements_db, gameplay_sessions_db,
          performance_metrics_db, purchases_db, admins_db,
          issued, clock, last, inflight

tables == <<users_db, songs_db, user_entitlements_db, gameplay_sessions_db,
            performance_metrics_db, purchases_db, admins_db>>

vars == <<users_db, songs_db, user_entitlements_db, gameplay_sessions_db,
          performance_metrics_db, purchases_db, admins_db,
          issued, clock, last, inflight>>

\* The empty dict.
Empty == <<>>

\* The two requests of a concurrent pair.
Requests == {"r1", "r2"}

Idle == [op |-> "idle"]

Init ==
    /\ users_db = Empty
    /\ songs_db = Empty
    /\ user_entitlements_db = Empty
    /\ gameplay_sessions_db = Empty
    /\ performance_metrics_db = Empty
    /\ purchases_db = Empty
    /\ admins_db = Empty
    /\ issued = [users |-> 0, songs |-> 0, sessions |-> 0, purchases |-> 0,
                 admins |-> 0]
    /\ clock = 0
    /\ last = [op |-> "", status |-> 0, detail |-> "", body |-> None]
    /\ inflight = [r \in Requests |-> Idle]

\* ---- helpers -------------------------------------------------------------
\* uuid4(): an id no earlier call returned.
uuid4(table) == issued[table] + 1

\* datetime.datetime.now(): never earlier than the previous reading.
Now == clock..MaxClock

\* d[k] = v
Put(d, k, v) == [x \in DOMAIN d \cup {k} |-> IF x = k THEN v ELSE d[x]]

\* del d[k]
Del(d, k) == [x \in DOMAIN d \ {k} |-> d[x]]

\* Model(**extra, **data.model_dump())
Build(extra, data) == extra @@ data

\* for key, value in update_data.items(): setattr(obj, key, value)
setattr_all(obj, update_data) ==
    [f \in DOMAIN obj |-> IF f \in DOMAIN update_data THEN update_data[f] ELSE obj[f]]

\* str(UUID): canonical fixed-width text.
Str(id) == <<id>>

\* f"{userId}-{songId}"
entitlement_key(userId, songId) == Str(userId) \o <<"-">> \o Str(songId)

\* What the handler hands back: return value (body) or HTTPException (detail).
\* `last` is the handler that ran last and what it answered.
\* raise HTTPException(status_code=..., detail=...) in handler op.
Raise(op, status_code, detail) ==
    last' = [op |-> op, status |-> status_code, detail |-> detail, body |-> None]

\* return obj in a handler op that writes a table, under the route's
\* status_code. The object returned is the one the handler has just stored
\* (or None after a delete), so the answer is recorded by its status alone.
Return(op, status_code, obj) ==
    last' = [op |-> op, status |-> status_code, detail |-> "", body |-> None]

\* return obj in a read route: the response body is the object's fields as
\* they are when the handler returns.
ReturnBody(op, status_code, obj) ==
    last' = [op |-> op, status |-> status_code, detail |-> "", body |-> Some(obj)]

\* ---- user routes ---------------------------------------------------------
\* Mutant: the scan compares the wrong attribute.
email_registered_by_name(email) ==
    \E k \in DOMAIN users_db : users_db[k].name = email

\* any(u.email == user_data.email for u in users_db.values())
email_registered(email) == \E k \in DOMAIN users_db : users_db[k].email = email

create_user(user_data) ==
    IF email_registered(user_data.email)
    THEN /\ Raise("create_user", 409, "Email already registered")
         /\ UNCHANGED <<tables, issued, clock>>
    ELSE /\ \E now \in Now :
              LET new_user == Build([id |-> uuid4("users"), createdAt |-> now,
                                     updatedAt |-> now], user_data)
              IN  /\ users_db' = Put(users_db, new_user.id, new_user)
                  /\ clock' = now
                  /\ Return("create_user", 201, new_user)
         /\ issued' = [issued EXCEPT !.users = @ + 1]
         /\ UNCHANGED <<songs_db, user_entitlements_db, gameplay_sessions_db,
                        performance_metrics_db, purchases_db, admins_db>>

\* Mutant: the update leaves updatedAt as it was.
update_user_unstamped(user_id, user_data) ==
    IF user_id \notin DOMAIN users_db
    THEN /\ Raise("update_user", 404, "User not found")
         /\ UNCHANGED <<tables, issued, clock>>
    ELSE /\ LET user == setattr_all(users_db[user_id], user_data)
            IN  /\ users_db' = Put(users_db, user_id, user)
                /\ Return("update_user", 200, user)
         /\ UNCHANGED <<songs_db, user_entitlements_db, gameplay_sessions_db,
                        performance_metrics_db, purchases_db, admins_db, issued,
                        clock>>

update_user(user_id, user_data) ==
    IF user_id \notin DOMAIN users_db
    THEN /\ Raise("update_user", 404, "User not found")
         /\ UNCHANGED <<tables, issued, clock>>
    ELSE /\ \E now \in Now :
              LET user == [setattr_all(users_db[user_id], user_data)
                             EXCEPT !.updatedAt = now]
              IN  /\ users_db' = Put(users_db, user_id, user)
                  /\ clock' = now
                  /\ Return("update_user", 200, user)
         /\ UNCHANGED <<songs_db, user_entitlements_db, gameplay_sessions_db,
                        performance_metrics_db, purchases_db, admins_db, issued>>

\* Mutant: the user's gameplay sessions go with the user.
delete_user_cascade(user_id) ==
    IF user_id \notin DOMAIN users_db
    THEN /\ Raise("delete_user", 404, "User not found")
         /\ UNCHANGED <<tables, issued, clock>>
    ELSE /\ users_db' = Del(users_db, user_id)
         /\ gameplay_sessions_db' =
               [g \in {x \in DOMAIN gameplay_sessions_db :
                          gameplay_sessions_db[x].userId # user_id}
                  |-> gameplay_sessions_db[g]]
         /\ Return("delete_user", 204, None)
         /\ UNCHANGED <<songs_db, user_entitlements_db,
                        performance_metrics_db, purchases_db, admins_db,
                        issued, clock>>

delete_user(user_id) ==
    IF user_id \notin DOMAIN users_db
    THEN /\ Raise("delete_user", 404, "User not found")
         /\ UNCHANGED <<tables, issued, clock>>
    ELSE /\ users_db' = Del(users_db, user_id)
         /\ Return("delete_user", 204, None)
         /\ UNCHANGED <<songs_db, user_entitlements_db, gameplay_sessions_db,
                        performance_metrics_db, purchases_db, admins_db,
                        issued, clock>>

\* ---- song routes ---------------------------------------------------------
create_song(song_data) ==
    /\ \E now \in Now :
         LET new_song == Build([id |-> uuid4("songs"), createdAt |-> now,
                                updatedAt |-> now], song_data)
         IN  /\ songs_db' = Put(songs_db, new_song.id, new_song)
             /\ clock' = now
             /\ Return("create_song", 201, new_song)
    /\ issued' = [issued EXCEPT !.songs = @ + 1]
    /\ UNCHANGED <<users_db, user_entitlements_db, gameplay_sessions_db,
                   performance_metrics_db, purchases_db, admins_db>>

update_song(song_id, song_data) ==
    IF song_id \notin DOMAIN songs_db
    THEN /\ Raise("update_song", 404, "Song not found")
         /\ UNCHANGED <<tables, issued, clock>>
    ELSE /\ \E now \in Now :
              LET song == [setattr_all(songs_db[song_id], song_data)
                             EXCEPT !.updatedAt = now]
              IN  /\ songs_db' = Put(songs_db, song_id, song)
                  /\ clock' = now
                  /\ Return("update_song", 200, song)
         /\ UNCHANGED <<users_db, user_entitlements_db, gameplay_sessions_db,
                        performance_metrics_db, purchases_db, admins_db, issued>>

delete_song(song_id) ==
    IF song_id \notin DOMAIN songs_db
    THEN /\ Raise("delete_song", 404, "Song not found")
         /\ UNCHANGED <<tables, issued, clock>>
    ELSE /\ songs_db' = Del(songs_db, song_id)
         /\ Return("delete_song", 204, None)
         /\ UNCHANGED <<users_db, user_entitlements_db, gameplay_sessions_db,
                        performance_metrics_db, purchases_db, admins_db,
                        issued, clock>>

\* ---- gameplay session routes ---------------------------------------------
create_gameplay_session(session_data) ==
    IF session_data.userId \notin DOMAIN users_db
    THEN /\ Raise("create_gameplay_session", 404, "User not found")
         /\ UNCHANGED <<tables, issued, clock>>
    ELSE IF session_data.songId \notin DOMAIN songs_db
    THEN /\ Raise("create_gameplay_session", 404, "Song not found")
         /\ UNCHANGED <<tables, issued, clock>>
    ELSE /\ \E now \in Now :
              LET new_session == Build([id |-> uuid4("sessions"), startedAt |-> now,
                                        performance |-> None], session_data)
              IN  /\ gameplay_sessions_db' =
                        Put(gameplay_sessions_db, new_session.id, new_session)
                  /\ clock' = now
                  /\ Return("create_gameplay_session", 201, new_session)
         /\ issued' = [issued EXCEPT !.sessions = @ + 1]
         /\ UNCHANGED <<users_db, songs_db, user_entitlements_db,
                        performance_metrics_db, purchases_db, admins_db>>

\* Mutant: the join finds nothing.
performance_get_absent(session_id) == None

\* performance_metrics_db.get(session_id)
performance_get(session_id) ==
    IF session_id \in DOMAIN performance_metrics_db
    THEN Some(performance_metrics_db[session_id])
    ELSE None

\* Mutant: the join takes the metric out of its table (pop for get).
get_gameplay_session_by_id_popping(session_id) ==
    IF session_id \notin DOMAIN gameplay_sessions_db
    THEN /\ Raise("get_gameplay_session_by_id", 404, "Gameplay session not found")
         /\ UNCHANGED <<tables, issued, clock>>
    ELSE LET session == [gameplay_sessions_db[session_id]
                           EXCEPT !.performance = performance_get(session_id)]
         IN  /\ gameplay_sessions_db' = Put(gameplay_sessions_db, session_id, session)
             /\ performance_metrics_db' = Del(performance_metrics_db, session_id)
             /\ ReturnBody("get_gameplay_session_by_id", 200, session)
             /\ UNCHANGED <<users_db, songs_db, user_entitlements_db,
                            purchases_db, admins_db, issued, clock>>

\* `session` is the object stored in gameplay_sessions_db, so the assignment
\* to session.performance writes the stored record.
get_gameplay_session_by_id(session_id) ==
    IF session_id \notin DOMAIN gameplay_sessions_db
    THEN /\ Raise("get_gameplay_session_by_id", 404, "Gameplay session not found")
         /\ UNCHANGED <<tables, issued, clock>>
    ELSE LET session == [gameplay_sessions_db[session_id]
                           EXCEPT !.performance = performance_get(session_id)]
         IN  /\ gameplay_sessions_db' = Put(gameplay_sessions_db, session_id, session)
             /\ ReturnBody("get_gameplay_session_by_id", 200, session)
             /\ UNCHANGED <<users_db, songs_db, user_entitlements_db,
                            performance_metrics_db, purchases_db, admins_db,
                            issued, clock>>

\* Mutant: an update restarts the session.
update_gameplay_session_restarted(session_id, session_data) ==
    IF session_id \notin DOMAIN gameplay_sessions_db
    THEN /\ Raise("update_gameplay_session", 404, "Gameplay session not found")
         /\ UNCHANGED <<tables, issued, clock>>
    ELSE LET session == [setattr_all(gameplay_sessions_db[session_id], session_data)
                           EXCEPT !.startedAt = clock]
         IN  /\ gameplay_sessions_db' = Put(gameplay_sessions_db, session_id, session)
             /\ Return("update_gameplay_session", 200, session)
             /\ UNCHANGED <<users_db, songs_db, user_entitlements_db,
                            performance_metrics_db, purchases_db, admins_db,
                            issued, clock>>

update_gameplay_session(session_id, session_data) ==
    IF session_id \notin DOMAIN gameplay_sessions_db
    THEN /\ Raise("update_gameplay_session", 404, "Gameplay session not found")
         /\ UNCHANGED <<tables, issued, clock>>
    ELSE LET session == setattr_all(gameplay_sessions_db[session_id], session_data)
         IN  /\ gameplay_sessions_db' = Put(gameplay_sessions_db, session_id, session)
             /\ Return("update_gameplay_session", 200, session)
             /\ UNCHANGED <<users_db, songs_db, user_entitlements_db,
                            performance_metrics_db, purchases_db, admins_db,
                            issued, clock>>

\* ---- performance metric routes -------------------------------------------
\* Mutant: the duplicate check is gone.
has_performance_never(session_id) == FALSE

\* session_id in performance_metrics_db
has_performance(session_id) == session_id \in DOMAIN performance_metrics_db

submit_performance_metrics(session_id, performance_data) ==
    IF session_id \notin DOMAIN gameplay_sessions_db
    THEN /\ Raise("submit_performance_metrics", 404, "Gameplay session not found")
         /\ UNCHANGED <<tables, issued, clock>>
    ELSE IF has_performance(session_id)
    THEN /\ Raise("submit_performance_metrics", 409,
                  "Performance metrics already exist for this session")
         /\ UNCHANGED <<tables, issued, clock>>
    ELSE /\ \E now \in Now :
              LET new_performance == Build([sessionId |-> session_id,
                                            submittedAt |-> now], performance_data)
              IN  /\ performance_metrics_db' =
                        Put(performance_metrics_db, session_id, new_performance)
                  /\ clock' = now
                  /\ Return("submit_performance_metrics", 201, new_performance)
         /\ UNCHANGED <<users_db, songs_db, user_entitlements_db,
                        gameplay_sessions_db, purchases_db, admins_db, issued>>

\* ---- purchase routes -----------------------------------------------------
\* Mutant: the duplicate check is gone.
has_entitlement_never(key) == FALSE

\* entitlement_key in user_entitlements_db
has_entitlement(key) == key \in DOMAIN user_entitlements_db

\* Mutant: the purchase grants nothing.
auto_grant_skipped(purchase_data, now) == user_entitlements_db

\* Mutant: the entitlement is stamped with an earlier reading of the clock
\* than the purchase.
auto_grant_own_clock(purchase_data, now) ==
    LET key == entitlement_key(purchase_data.userId, purchase_data.songId)
        new_entitlement == [userId |-> purchase_data.userId,
                            songId |-> purchase_data.songId,
                            source |-> "purchase",
                            grantedAt |-> clock]
    IN  IF key \notin DOMAIN user_entitlements_db
        THEN Put(user_entitlements_db, key, new_entitlement)
        ELSE user_entitlements_db

\* Mutant: the purchase's entitlement replaces the one already there.
auto_grant_overwrite(purchase_data, now) ==
    Put(user_entitlements_db,
        entitlement_key(purchase_data.userId, purchase_data.songId),
        [userId |-> purchase_data.userId, songId |-> purchase_data.songId,
         source |-> "purchase", grantedAt |-> now])

\* The "Automatically grant entitlement upon purchase" block.
auto_grant(purchase_data, now) ==
    LET key == entitlement_key(purchase_data.userId, purchase_data.songId)
        new_entitlement == [userId |-> purchase_data.userId,
                            songId |-> purchase_data.songId,
                            source |-> "purchase",
                            grantedAt |-> now]
    IN  IF ~has_entitlement(key)
        THEN Put(user_entitlements_db, key, new_entitlement)
        ELSE user_entitlements_db

\* Mutant: the purchase is stored before the song is looked up.
record_purchase_late_check(purchase_data) ==
    IF purchase_data.userId \notin DOMAIN users_db
    THEN /\ Raise("record_purchase", 404, "User not found")
         /\ UNCHANGED <<tables, issued, clock>>
    ELSE /\ \E now \in Now :
              LET new_purchase == Build([id |-> uuid4("purchases"),
                                         purchasedAt |-> now], purchase_data)
              IN  /\ purchases_db' = Put(purchases_db, new_purchase.id, new_purchase)
                  /\ clock' = now
                  /\ IF purchase_data.songId \notin DOMAIN songs_db
                     THEN /\ Raise("record_purchase", 404, "Song not found")
                          /\ UNCHANGED user_entitlements_db
                     ELSE /\ Return("record_purchase", 201, new_purchase)
                          /\ user_entitlements_db' = auto_grant(purchase_data, now)
         /\ issued' = [issued EXCEPT !.purchases = @ + 1]
         /\ UNCHANGED <<users_db, songs_db, gameplay_sessions_db,
                        performance_metrics_db, admins_db>>

record_purchase(purchase_data) ==
    IF purchase_data.userId \notin DOMAIN users_db
    THEN /\ Raise("record_purchase", 404, "User not found")
         /\ UNCHANGED <<tables, issued, clock>>
    ELSE IF purchase_data.songId \notin DOMAIN songs_db
    THEN /\ Raise("record_purchase", 404, "Song not found")
         /\ UNCHANGED <<tables, issued, clock>>
    ELSE /\ \E now \in Now :
              LET new_purchase == Build([id |-> uuid4("purchases"),
                                         purchasedAt |-> now], purchase_data)
              IN  /\ purchases_db' = Put(purchases_db, new_purchase.id, new_purchase)
                  /\ user_entitlements_db' = auto_grant(purchase_data, now)
                  /\ clock' = now
                  /\ Return("record_purchase", 201, new_purchase)
         /\ issued' = [issued EXCEPT !.purchases = @ + 1]
         /\ UNCHANGED <<users_db, songs_db, gameplay_sessions_db,
                        performance_metrics_db, admins_db>>

\* Mutant: a refund revokes the purchase's entitlement.
update_purchase_revoking(purchase_id, purchase_data) ==
    IF purchase_id \notin DOMAIN purchases_db
    THEN /\ Raise("update_purchase", 404, "Purchase not found")
         /\ UNCHANGED <<tables, issued, clock>>
    ELSE LET purchase == setattr_all(purchases_db[purchase_id], purchase_data)
         IN  /\ purchases_db' = Put(purchases_db, purchase_id, purchase)
             /\ user_entitlements_db' =
                   IF purchase.refunded
                   THEN Del(user_entitlements_db,
                            entitlement_key(purchase.userId, purchase.songId))
                   ELSE user_entitlements_db
             /\ Return("update_purchase", 200, purchase)
             /\ UNCHANGED <<users_db, songs_db, gameplay_sessions_db,
                            performance_metrics_db, admins_db, issued, clock>>

update_purchase(purchase_id, purchase_data) ==
    IF purchase_id \notin DOMAIN purchases_db
    THEN /\ Raise("update_purchase", 404, "Purchase not found")
         /\ UNCHANGED <<tables, issued, clock>>
    ELSE LET purchase == setattr_all(purchases_db[purchase_id], purchase_data)
         IN  /\ purchases_db' = Put(purchases_db, purchase_id, purchase)
             /\ Return("update_purchase", 200, purchase)
             /\ UNCHANGED <<users_db, songs_db, user_entitlements_db,
                            gameplay_sessions_db, performance_metrics_db,
                            admins_db, issued, clock>>

\* ---- admin routes --------------------------------------------------------
\* Mutant: the "already an admin" check is gone.
is_admin_never(userId) == FALSE

\* any(a.userId == admin_data.userId for a in admins_db.values())
is_admin(userId) == \E k \in DOMAIN admins_db : admins_db[k].userId = userId

create_admin(admin_data) ==
    IF admin_data.userId \notin DOMAIN users_db
    THEN /\ Raise("create_admin", 404, "User not found")
         /\ UNCHANGED <<tables, issued, clock>>
    ELSE IF is_admin(admin_data.userId)
    THEN /\ Raise("create_admin", 409, "User already has an admin role")
         /\ UNCHANGED <<tables, issued, clock>>
    ELSE /\ \E now \in Now :
              LET new_admin == Build([id |-> uuid4("admins"), grantedAt |-> now],
                                     admin_data)
              IN  /\ admins_db' = Put(admins_db, new_admin.id, new_admin)
                  /\ clock' = now
                  /\ Return("create_admin", 201, new_admin)
         /\ issued' = [issued EXCEPT !.admins = @ + 1]
         /\ UNCHANGED <<users_db, songs_db, user_entitlements_db,
                        gameplay_sessions_db, performance_metrics_db, purchases_db>>

update_admin_role(admin_id, admin_data) ==
    IF admin_id \notin DOMAIN admins_db
    THEN /\ Raise("update_admin_role", 404, "Admin entry not found")
         /\ UNCHANGED <<tables, issued, clock>>
    ELSE LET admin == IF admin_data.role # None
                      THEN [admins_db[admin_id] EXCEPT !.role = admin_data.role[1]]
                      ELSE admins_db[admin_id]
         IN  /\ admins_db' = Put(admins_db, admin_id, admin)
             /\ Return("update_admin_role", 200, admin)
             /\ UNCHANGED <<users_db, songs_db, user_entitlements_db,
                            gameplay_sessions_db, performance_metrics_db,
                            purchases_db, issued, clock>>

\* Mutant: deleting an absent admin record is answered like a deletion.
delete_admin_idempotent(admin_id) ==
    /\ admins_db' = Del(admins_db, admin_id)
    /\ Return("delete_admin", 204, None)
    /\ UNCHANGED <<users_db, songs_db, user_entitlements_db,
                   gameplay_sessions_db, performance_metrics_db, purchases_db,
                   issued, clock>>

delete_admin(admin_id) ==
    IF admin_id \notin DOMAIN admins_db
    THEN /\ Raise("delete_admin", 404, "Admin entry not found")
         /\ UNCHANGED <<tables, issued, clock>>
    ELSE /\ admins_db' = Del(admins_db, admin_id)
         /\ Return("delete_admin", 204, None)
         /\ UNCHANGED <<users_db, songs_db, user_entitlements_db,
                        gameplay_sessions_db, performance_metrics_db, purchases_db,
                        issued, clock>>

\* ---- user entitlement routes ---------------------------------------------
\* Mutant: the path id is compared with the body only after the lookups.
grant_user_entitlement_lookup_first(user_id, entitlement_data) ==
    IF user_id \notin DOMAIN users_db
    THEN /\ Raise("grant_user_entitlement", 404, "User not found")
         /\ UNCHANGED <<tables, issued, clock>>
    ELSE IF entitlement_data.songId \notin DOMAIN songs_db
    THEN /\ Raise("grant_user_entitlement", 404, "Song not found")
         /\ UNCHANGED <<tables, issued, clock>>
    ELSE IF has_entitlement(entitlement_key(user_id, entitlement_data.songId))
    THEN /\ Raise("grant_user_entitlement", 409, "User already has this entitlement")
         /\ UNCHANGED <<tables, issued, clock>>
    ELSE IF user_id # entitlement_data.userId
    THEN /\ Raise("grant_user_entitlement", 400,
                  "User ID in path does not match user ID in body")
         /\ UNCHANGED <<tables, issued, clock>>
    ELSE /\ \E now \in Now :
              LET new_entitlement == Build([grantedAt |-> now], entitlement_data)
              IN  /\ user_entitlements_db' =
                        Put(user_entitlements_db,
                            entitlement_key(user_id, entitlement_data.songId),
                            new_entitlement)
                  /\ clock' = now
                  /\ Return("grant_user_entitlement", 201, new_entitlement)
         /\ UNCHANGED <<users_db, songs_db, gameplay_sessions_db,
                        performance_metrics_db, purchases_db, admins_db, issued>>

grant_user_entitlement(user_id, entitlement_data) ==
    IF user_id # entitlement_data.userId
    THEN /\ Raise("grant_user_entitlement", 400,
                  "User ID in path does not match user ID in body")
         /\ UNCHANGED <<tables, issued, clock>>
    ELSE IF user_id \notin DOMAIN users_db
    THEN /\ Raise("grant_user_entitlement", 404, "User not found")
         /\ UNCHANGED <<tables, issued, clock>>
    ELSE IF entitlement_data.songId \notin DOMAIN songs_db
    THEN /\ Raise("grant_user_entitlement", 404, "Song not found")
         /\ UNCHANGED <<tables, issued, clock>>
    ELSE IF has_entitlement(entitlement_key(user_id, entitlement_data.songId))
    THEN /\ Raise("grant_user_entitlement", 409, "User already has this entitlement")
         /\ UNCHANGED <<tables, issued, clock>>
    ELSE /\ \E now \in Now :
              LET new_entitlement == Build([grantedAt |-> now], entitlement_data)
              IN  /\ user_entitlements_db' =
                        Put(user_entitlements_db,
                            entitlement_key(user_id, entitlement_data.songId),
                            new_entitlement)
                  /\ clock' = now
                  /\ Return("grant_user_entitlement", 201, new_entitlement)
         /\ UNCHANGED <<users_db, songs_db, gameplay_sessions_db,
                        performance_metrics_db, purchases_db, admins_db, issued>>

\* ---- specifications ------------------------------------------------------
Quiet == \A r \in Requests : inflight[r] = Idle

\* The ids issued so far, over all tables.
Total(n) == n.users + n.songs + n.sessions + n.purchases + n.admins

\* The model follows the program while the ids it has issued fit the bounds.
Within(budget) ==
    /\ Total(issued') <= budget
    /\ issued'.users <= MaxUsers
    /\ issued'.songs <= MaxSongs
    /\ issued'.sessions <= MaxSessions
    /\ issued'.purchases <= MaxPurchases
    /\ issued'.admins <= MaxAdmins

\* A request handled while no other request is in flight.
Request(H) == Quiet /\ H /\ Within(MaxRecords) /\ UNCHANGED inflight

\* Spec: every handler that writes a table, one request at a time.
Next ==
    \/ \E d \in UserCreate : Request(create_user(d))
    \/ \E u \in UserIds, d \in UserUpdate : Request(update_user(u, d))
    \/ \E u \in UserIds : Request(delete_user(u))
    \/ \E d \in SongCreate : Request(create_song(d))
    \/ \E s \in SongIds, d \in SongUpdate : Request(update_song(s, d))
    \/ \E s \in SongIds : Request(delete_song(s))
    \/ \E d \in GameplaySessionCreate : Request(create_gameplay_session(d))
    \/ \E g \in SessionIds : Request(get_gameplay_session_by_id(g))
    \/ \E g \in SessionIds, d \in GameplaySessionUpdate :
          Request(update_gameplay_session(g, d))
    \/ \E g \in SessionIds, d \in PerformanceMetricCreate :
          Request(submit_performance_metrics(g, d))
    \/ \E d \in PurchaseCreate : Request(record_purchase(d))
    \/ \E p \in PurchaseIds, d \in PurchaseUpdate : Request(update_purchase(p, d))
    \/ \E d \in AdminCreate : Request(create_admin(d))
    \/ \E a \in AdminIds, d \in AdminUpdate : Request(update_admin_role(a, d))
    \/ \E a \in AdminIds : Request(delete_admin(a))
    \/ \E u \in UserIds, d \in UserEntitlementCreate :
          Request(grant_user_entitlement(u, d))

Spec == Init /\ [][Next]_vars

\* PurchaseSpec: the handlers that read or write users_db, songs_db,
\* purchases_db or user_entitlements_db, with room for a second purchase.
\* The handlers left out write none of these four tables.
Commerce(H) == Quiet /\ H /\ Within(MaxCommerceRecords) /\ UNCHANGED inflight

PurchaseNext ==
    \/ \E d \in UserCreate : Commerce(create_user(d))
    \/ \E u \in UserIds, d \in UserUpdate : Commerce(update_user(u, d))
    \/ \E u \in UserIds : Commerce(delete_user(u))
    \/ \E d \in SongCreate : Commerce(create_song(d))
    \/ \E s \in SongIds, d \in SongUpdate : Commerce(update_song(s, d))
    \/ \E s \in SongIds : Commerce(delete_song(s))
    \/ \E d \in PurchaseCreate : Commerce(record_purchase(d))
    \/ \E p \in PurchaseIds, d \in PurchaseUpdate : Commerce(update_purchase(p, d))
    \/ \E u \in UserIds, d \in UserEntitlementCreate :
          Commerce(grant_user_entitlement(u, d))

PurchaseSpec == Init /\ [][PurchaseNext]_vars

\* ConcSpec: two create requests in flight at once. A request arrives (its
\* body parsed), its handler runs on the event loop, its response is sent. A
\* handler has no await, so it runs whole; the two handlers run in either
\* order, and a handler may run before or after the other request arrives.
\* Requests outside the pair are handled while none of the pair is in flight.
CreateRequests ==
    {[op |-> "create_user", arg |-> d, status |-> 0] : d \in UserCreate}
    \cup {[op |-> "grant_user_entitlement",
           arg |-> [user_id |-> d.userId, entitlement_data |-> d], status |-> 0]
            : d \in UserEntitlementCreate}
    \cup {[op |-> "create_admin", arg |-> d, status |-> 0] : d \in AdminCreate}
    \cup {[op |-> "submit_performance_metrics",
           arg |-> [session_id |-> g, performance_data |-> d], status |-> 0]
            : g \in SessionIds, d \in PerformanceMetricCreate}

Pending(r, op) == inflight[r].op = op /\ inflight[r].status = 0

\* The handler's outcome becomes the request's response.
Answer(r) == inflight' = [inflight EXCEPT ![r].status = last'.status]

Arrive(r, req) ==
    /\ inflight[r] = Idle
    /\ inflight' = [inflight EXCEPT ![r] = req]
    /\ UNCHANGED <<tables, issued, clock, last>>

HandleCreateUser(r) ==
    /\ Pending(r, "create_user")
    /\ create_user(inflight[r].arg)
    /\ Within(MaxRecords)
    /\ Answer(r)

HandleGrant(r) ==
    /\ Pending(r, "grant_user_entitlement")
    /\ grant_user_entitlement(inflight[r].arg.user_id, inflight[r].arg.entitlement_data)
    /\ Answer(r)

HandleCreateAdmin(r) ==
    /\ Pending(r, "create_admin")
    /\ create_admin(inflight[r].arg)
    /\ Within(MaxRecords)
    /\ Answer(r)

HandleSubmit(r) ==
    /\ Pending(r, "submit_performance_metrics")
    /\ submit_performance_metrics(inflight[r].arg.session_id,
                                  inflight[r].arg.performance_data)
    /\ Answer(r)

\* Both requests are answered; the responses are sent and the pair is over.
Respond ==
    /\ \A r \in Requests : inflight[r] # Idle /\ inflight[r].status # 0
    /\ inflight' = [r \in Requests |-> Idle]
    /\ UNCHANGED <<tables, issued, clock, last>>

ConcNext ==
    \/ \E d \in UserCreate : Request(create_user(d))
    \/ \E u \in UserIds : Request(delete_user(u))
    \/ \E d \in SongCreate : Request(create_song(d))
    \/ \E d \in GameplaySessionCreate : Request(create_gameplay_session(d))
    \/ \E r \in Requests, req \in CreateRequests : Arrive(r, req)
    \/ \E r \in Requests : HandleCreateUser(r)
    \/ \E r \in Requests : HandleGrant(r)
    \/ \E r \in Requests : HandleCreateAdmin(r)
    \/ \E r \in Requests : HandleSubmit(r)
    \/ Respond

ConcSpec == Init /\ [][ConcNext]_vars

\* ---- properties ----------------------------------------------------------
\* The entitlements a table holds for the pair (u, s).
EntitlementsFor(db, u, s) ==
    {db[k] : k \in {x \in DOMAIN db : db[x].userId = u /\ db[x].songId = s}}

\* The purchases a table holds for the pair (u, s).
PurchasesFor(db, u, s) ==
    {k \in DOMAIN db : db[k].userId = u /\ db[k].songId = s}

\* C1: no two distinct stored users have the same email, in every state
\* reachable by create_user, update_user and delete_user (and the other
\* handlers).
C1_UniqueEmail ==
    \A k1 \in DOMAIN users_db, k2 \in DOMAIN users_db :
        k1 # k2 => users_db[k1].email # users_db[k2].email

\* C2: in every reachable state, every record of purchases_db has an
\* entitlement for its (userId, songId) pair.
C2_PurchaseEntitled ==
    \A p \in DOMAIN purchases_db :
        EntitlementsFor(user_entitlements_db,
                        purchases_db[p].userId, purchases_db[p].songId) # {}

\* A purchase refunded, its user and its song deleted, and still entitled.
C2_Witness ==
    \E p \in DOMAIN purchases_db :
        /\ purchases_db[p].refunded
        /\ purchases_db[p].userId \notin DOMAIN users_db
        /\ purchases_db[p].songId \notin DOMAIN songs_db
        /\ EntitlementsFor(user_entitlements_db,
                           purchases_db[p].userId, purchases_db[p].songId) # {}

\* C3: a record_purchase that succeeds for (u, s) when no entitlement for
\* (u, s) existed leaves exactly one entitlement for (u, s), with source
\* purchase and grantedAt equal to the new purchase's purchasedAt.
C3_PurchaseGrants ==
    [][\A d \in PurchaseCreate :
         ( /\ record_purchase(d)
           /\ last'.status = 201
           /\ EntitlementsFor(user_entitlements_db, d.userId, d.songId) = {} )
         => \E p \in DOMAIN purchases_db' \ DOMAIN purchases_db :
              EntitlementsFor(user_entitlements_db', d.userId, d.songId)
                = {[userId |-> d.userId, songId |-> d.songId,
                    source |-> "purchase",
                    grantedAt |-> purchases_db'[p].purchasedAt]}]_vars

\* The first purchase of a pair has just been recorded, after the clock moved.
C3_Witness ==
    /\ last.op = "record_purchase"
    /\ last.status = 201
    /\ issued.purchases = 1
    /\ \E p \in DOMAIN purchases_db :
         /\ purchases_db[p].purchasedAt = 1
         /\ EntitlementsFor(user_entitlements_db,
                            purchases_db[p].userId, purchases_db[p].songId)
              = {[userId |-> purchases_db[p].userId,
                  songId |-> purchases_db[p].songId,
                  source |-> "purchase", grantedAt |-> 1]}
    /\ \E u \in DOMAIN users_db : users_db[u].createdAt = 0

\* C4: record_purchase for (u, s), with user and song stored and an
\* entitlement for (u, s) already there, succeeds and adds one purchase
\* record; the entitlement keeps its source and grantedAt and stays the only
\* one for (u, s).
C4_PurchaseKeepsEntitlement ==
    [][\A d \in PurchaseCreate :
         ( /\ record_purchase(d)
           /\ d.userId \in DOMAIN users_db
           /\ d.songId \in DOMAIN songs_db
           /\ EntitlementsFor(user_entitlements_db, d.userId, d.songId) # {} )
         => /\ last'.status = 201
            /\ Cardinality(DOMAIN purchases_db') = Cardinality(DOMAIN purchases_db) + 1
            /\ DOMAIN purchases_db \subseteq DOMAIN purchases_db'
            /\ Cardinality(PurchasesFor(purchases_db', d.userId, d.songId))
                 = Cardinality(PurchasesFor(purchases_db, d.userId, d.songId)) + 1
            /\ EntitlementsFor(user_entitlements_db', d.userId, d.songId)
                 = EntitlementsFor(user_entitlements_db, d.userId, d.songId)
            /\ Cardinality(EntitlementsFor(user_entitlements_db', d.userId, d.songId)) = 1
            /\ Cardinality(DOMAIN user_entitlements_db')
                 = Cardinality(DOMAIN user_entitlements_db)]_vars

\* A second purchase of a pair, later than the first, whose entitlement is
\* still the first purchase's.
C4_Witness ==
    \E p1 \in DOMAIN purchases_db, p2 \in DOMAIN purchases_db :
        /\ p1 # p2
        /\ purchases_db[p1].userId = purchases_db[p2].userId
        /\ purchases_db[p1].songId = purchases_db[p2].songId
        /\ purchases_db[p1].purchasedAt = 0
        /\ purchases_db[p2].purchasedAt = 1
        /\ last.op = "record_purchase"
        /\ last.status = 201
        /\ EntitlementsFor(user_entitlements_db,
                           purchases_db[p1].userId, purchases_db[p1].songId)
             = {[userId |-> purchases_db[p1].userId,
                 songId |-> purchases_db[p1].songId,
                 source |-> "purchase", grantedAt |-> 0]}

\* C5 as stated: grant_user_entitlement for a pair that already has an
\* entitlement always fails with Conflict (409) and changes no entitlement,
\* here even with the path id equal to the body's userId.
C5_AlwaysConflict ==
    [][\A u \in UserIds, d \in UserEntitlementCreate :
         ( /\ grant_user_entitlement(u, d)
           /\ u = d.userId
           /\ EntitlementsFor(user_entitlements_db, d.userId, d.songId) # {} )
         => /\ last'.status = 409
            /\ user_entitlements_db' = user_entitlements_db]_vars

\* C5, amended: grant_user_entitlement for a pair that already has an
\* entitlement never succeeds and changes no entitlement. It fails with
\* Conflict (409) when the path id is the body's userId and the user and the
\* song are both stored, with NotFound (404) when the user or the song has
\* been deleted, and with InvalidReference (400) when the path id differs.
C5_GrantTwiceFails ==
    [][\A u \in UserIds, d \in UserEntitlementCreate :
         ( /\ grant_user_entitlement(u, d)
           /\ EntitlementsFor(user_entitlements_db, d.userId, d.songId) # {} )
         => /\ user_entitlements_db' = user_entitlements_db
            /\ last'.status =
                 IF u # d.userId THEN 400
                 ELSE IF u \notin DOMAIN users_db \/ d.songId \notin DOMAIN songs_db
                      THEN 404
                      ELSE 409]_vars

\* A grant has just been refused with Conflict for a pair entitled by a purchase.
C5_Witness ==
    /\ last.op = "grant_user_entitlement"
    /\ last.status = 409
    /\ \E k \in DOMAIN user_entitlements_db :
         /\ user_entitlements_db[k].source = "purchase"
         /\ user_entitlements_db[k].userId \in DOMAIN users_db
         /\ user_entitlements_db[k].songId \in DOMAIN songs_db
    /\ \A k \in DOMAIN user_entitlements_db :
         user_entitlements_db[k].source = "purchase"

\* C6: submit_performance_metrics for a session that has a metric fails with
\* Conflict (409) and leaves the stored metrics as they are; a session never
\* has more than one metric, and every stored metric is keyed by the id of a
\* stored gameplay session.
C6_OneMetricPerSession ==
    /\ [](\A g \in DOMAIN performance_metrics_db :
            /\ g \in DOMAIN gameplay_sessions_db
            /\ gameplay_sessions_db[g].id = g
            /\ performance_metrics_db[g].sessionId = g)
    /\ [](\A g \in SessionIds :
            Cardinality({k \in DOMAIN performance_metrics_db :
                           performance_metrics_db[k].sessionId = g}) <= 1)
    /\ [][\A g \in SessionIds, d \in PerformanceMetricCreate :
            ( /\ submit_performance_metrics(g, d)
              /\ \E k \in DOMAIN performance_metrics_db :
                    performance_metrics_db[k].sessionId = g )
            => /\ last'.status = 409
               /\ performance_metrics_db' = performance_metrics_db]_vars

\* A second submission has just been refused, after the clock moved past the
\* stored metric's submittedAt.
C6_Witness ==
    /\ last.op = "submit_performance_metrics"
    /\ last.status = 409
    /\ clock = 1
    /\ \E g \in DOMAIN performance_metrics_db :
         performance_metrics_db[g].submittedAt = 0

\* C7: no two stored admin records have the same userId, whatever
\* create_admin, update_admin_role, delete_admin and the user handlers have
\* done; create_admin for a stored user that has an admin record fails with
\* Conflict (409) and adds no record. (For a deleted user whose admin record
\* is still stored it fails with NotFound, and adds no record either.)
C7_OneAdminPerUser ==
    /\ [](\A a1 \in DOMAIN admins_db, a2 \in DOMAIN admins_db :
            a1 # a2 => admins_db[a1].userId # admins_db[a2].userId)
    /\ [][\A d \in AdminCreate :
            ( /\ create_admin(d)
              /\ \E a \in DOMAIN admins_db : admins_db[a].userId = d.userId )
            => /\ admins_db' = admins_db
               /\ last'.status =
                    IF d.userId \in DOMAIN users_db THEN 409 ELSE 404]_vars

\* A create_admin has just been refused for a stored user whose admin record
\* had its role changed; an admin record was deleted before.
C7_Witness ==
    /\ last.op = "create_admin"
    /\ last.status = 409
    /\ issued.admins = 2
    /\ Cardinality(DOMAIN admins_db) = 1
    /\ \A a \in DOMAIN admins_db :
         /\ admins_db[a].userId \in DOMAIN users_db
         /\ admins_db[a].role = "publisher"

\* C8: create_user with an email some stored user has fails with Conflict
\* (409) and leaves users_db unchanged; with an email no stored user has, it
\* succeeds and adds exactly one user, with that email.
C8_CreateUserEmailCheck ==
    [][\A d \in UserCreate :
         create_user(d)
         => IF \E k \in DOMAIN users_db : users_db[k].email = d.email
            THEN /\ last'.status = 409
                 /\ users_db' = users_db
            ELSE /\ last'.status = 201
                 /\ \E k \in DOMAIN users_db' \ DOMAIN users_db :
                      /\ DOMAIN users_db' = DOMAIN users_db \cup {k}
                      /\ users_db'[k].email = d.email
                      /\ users_db'[k].name = d.name
                 /\ \A k \in DOMAIN users_db : users_db'[k] = users_db[k]]_vars

\* A create_user has just been refused while the one stored user has been
\* updated since its creation.
C8_Witness ==
    /\ last.op = "create_user"
    /\ last.status = 409
    /\ \E k \in DOMAIN users_db : users_db[k].updatedAt > users_db[k].createdAt
    /\ Cardinality({users_db[k].email : k \in DOMAIN users_db}) = 1
    /\ Cardinality(DOMAIN users_db) = 1

\* C9 as stated: each referencing create whose referenced user, song or
\* session is not stored fails with NotFound (404) and leaves every table as
\* it is.
C9_AlwaysNotFound ==
    [][/\ \A d \in GameplaySessionCreate :
            ( /\ create_gameplay_session(d)
              /\ (d.userId \notin DOMAIN users_db \/ d.songId \notin DOMAIN songs_db) )
            => (last'.status = 404 /\ tables' = tables)
       /\ \A d \in PurchaseCreate :
            ( /\ record_purchase(d)
              /\ (d.userId \notin DOMAIN users_db \/ d.songId \notin DOMAIN songs_db) )
            => (last'.status = 404 /\ tables' = tables)
       /\ \A d \in AdminCreate :
            (create_admin(d) /\ d.userId \notin DOMAIN users_db)
            => (last'.status = 404 /\ tables' = tables)
       /\ \A u \in UserIds, d \in UserEntitlementCreate :
            ( /\ grant_user_entitlement(u, d)
              /\ \/ u \notin DOMAIN users_db
                 \/ d.userId \notin DOMAIN users_db
                 \/ d.songId \notin DOMAIN songs_db )
            => (last'.status = 404 /\ tables' = tables)
       /\ \A g \in SessionIds, d \in PerformanceMetricCreate :
            ( /\ submit_performance_metrics(g, d)
              /\ g \notin DOMAIN gameplay_sessions_db )
            => (last'.status = 404 /\ tables' = tables)]_vars

\* C9, amended: each referencing create whose referenced user, song or
\* session is not stored fails and leaves every table as it is, so a record
\* is written only when the entities it references are stored. The failure
\* is NotFound (404), except that grant_user_entitlement with a path id
\* different from the body's userId fails with InvalidReference (400).
C9_MissingReferenceFails ==
    [][/\ \A d \in GameplaySessionCreate :
            ( /\ create_gameplay_session(d)
              /\ (d.userId \notin DOMAIN users_db \/ d.songId \notin DOMAIN songs_db) )
            => (last'.status = 404 /\ tables' = tables)
       /\ \A d \in PurchaseCreate :
            ( /\ record_purchase(d)
              /\ (d.userId \notin DOMAIN users_db \/ d.songId \notin DOMAIN songs_db) )
            => (last'.status = 404 /\ tables' = tables)
       /\ \A d \in AdminCreate :
            (create_admin(d) /\ d.userId \notin DOMAIN users_db)
            => (last'.status = 404 /\ tables' = tables)
       /\ \A u \in UserIds, d \in UserEntitlementCreate :
            ( /\ grant_user_entitlement(u, d)
              /\ \/ u \notin DOMAIN users_db
                 \/ d.userId \notin DOMAIN users_db
                 \/ d.songId \notin DOMAIN songs_db )
            => /\ last'.status = IF u # d.userId THEN 400 ELSE 404
               /\ tables' = tables
       /\ \A g \in SessionIds, d \in PerformanceMetricCreate :
            ( /\ submit_performance_metrics(g, d)
              /\ g \notin DOMAIN gameplay_sessions_db )
            => (last'.status = 404 /\ tables' = tables)]_vars

\* A purchase has just been refused with NotFound for a deleted song, with a
\* user stored; no purchase and no entitlement was written.
C9_Witness ==
    /\ last = [op |-> "record_purchase", status |-> 404,
               detail |-> "Song not found", body |-> None]
    /\ issued.songs = 1
    /\ songs_db = Empty
    /\ users_db # Empty
    /\ purchases_db = Empty
    /\ user_entitlements_db = Empty

\* The two requests target the same uniqueness key.
SameKey(a, b) ==
    /\ a.op = b.op
    /\ CASE a.op = "create_user" -> a.arg.email = b.arg.email
         [] a.op = "grant_user_entitlement" ->
              /\ a.arg.entitlement_data.userId = b.arg.entitlement_data.userId
              /\ a.arg.entitlement_data.songId = b.arg.entitlement_data.songId
         [] a.op = "create_admin" -> a.arg.userId = b.arg.userId
         [] a.op = "submit_performance_metrics" -> a.arg.session_id = b.arg.session_id
         [] OTHER -> FALSE

Answered(r) == inflight[r] # Idle /\ inflight[r].status # 0

\* C10: of two create requests in flight together for the same uniqueness
\* key (user email, entitlement pair, admin userId, metric session id), at
\* most one succeeds, whichever handler runs first; when one succeeds (201)
\* the other fails with Conflict (409).
C10_OneCreatePerKey ==
    \A r1 \in Requests, r2 \in Requests :
        ( /\ r1 # r2
          /\ Answered(r1)
          /\ Answered(r2)
          /\ SameKey(inflight[r1], inflight[r2]) )
        => /\ ~(inflight[r1].status = 201 /\ inflight[r2].status = 201)
           /\ inflight[r1].status = 201 => inflight[r2].status = 409

\* Two grants for one pair were in flight together: r2's handler ran first
\* and succeeded, r1's was refused.
C10_Witness ==
    /\ inflight["r1"].op = "grant_user_entitlement"
    /\ inflight["r2"].op = "grant_user_entitlement"
    /\ SameKey(inflight["r1"], inflight["r2"])
    /\ inflight["r1"].status = 409
    /\ inflight["r2"].status = 201
    /\ last.status = 409

\* C11 as stated: get_gameplay_session_by_id is a pure read, it changes no
\* stored record in any table.
C11_GetIsPureRead ==
    [][\A g \in SessionIds :
         get_gameplay_session_by_id(g) => tables' = tables]_vars

\* C12: get_gameplay_session_by_id for a stored session answers 200 with that
\* session, its performance equal to the stored metric when one is stored and
\* absent otherwise; and a metric is stored for a session exactly from the
\* step on in which submit_performance_metrics succeeded for it.
C12_GetShowsPerformance ==
    /\ [][\A g \in SessionIds :
            ( /\ get_gameplay_session_by_id(g)
              /\ g \in DOMAIN gameplay_sessions_db )
            => /\ last'.status = 200
               /\ last'.body # None
               /\ last'.body[1].id = g
               /\ last'.body[1].performance =
                    IF g \in DOMAIN performance_metrics_db
                    THEN Some(performance_metrics_db[g])
                    ELSE None
               /\ \A f \in DOMAIN gameplay_sessions_db[g] \ {"performance"} :
                    last'.body[1][f] = gameplay_sessions_db[g][f]]_vars
    /\ [][\A g \in SessionIds :
            g \in DOMAIN performance_metrics_db'
            <=> \/ g \in DOMAIN performance_metrics_db
                \/ /\ last'.op = "submit_performance_metrics"
                   /\ last'.status = 201
                   /\ \E d \in PerformanceMetricCreate :
                         submit_performance_metrics(g, d)]_vars

\* A session has just been read with its performance populated, the metric
\* submitted after the clock moved.
C12_Witness ==
    /\ last.op = "get_gameplay_session_by_id"
    /\ last.status = 200
    /\ last.body # None
    /\ last.body[1].performance # None
    /\ last.body[1].performance[1].submittedAt = 1
    /\ last.body[1].startedAt = 0

\* C13: update_purchase, also with a patch that sets refunded, leaves
\* user_entitlements_db unchanged; for a stored purchase it succeeds, and the
\* entitlement of the purchase's (userId, songId) is still there with the
\* same source and grantedAt.
C13_RefundKeepsEntitlement ==
    [][\A p \in PurchaseIds, d \in PurchaseUpdate :
         update_purchase(p, d)
         => /\ user_entitlements_db' = user_entitlements_db
            /\ p \in DOMAIN purchases_db
                 => /\ last'.status = 200
                    /\ d = [refunded |-> TRUE] => purchases_db'[p].refunded
                    /\ EntitlementsFor(user_entitlements_db',
                                       purchases_db[p].userId, purchases_db[p].songId)
                         = EntitlementsFor(user_entitlements_db,
                                           purchases_db[p].userId, purchases_db[p].songId)
                    /\ EntitlementsFor(user_entitlements_db',
                                       purchases_db'[p].userId, purchases_db'[p].songId)
                         # {}]_vars

\* A purchase has just been refunded; its user and song are stored and the
\* entitlement it granted is still there.
C13_Witness ==
    /\ last.op = "update_purchase"
    /\ last.status = 200
    /\ \E p \in DOMAIN purchases_db :
         /\ purchases_db[p].refunded
         /\ purchases_db[p].userId \in DOMAIN users_db
         /\ purchases_db[p].songId \in DOMAIN songs_db
         /\ EntitlementsFor(user_entitlements_db,
                            purchases_db[p].userId, purchases_db[p].songId)
              = {[userId |-> purchases_db[p].userId,
                  songId |-> purchases_db[p].songId,
                  source |-> "purchase",
                  grantedAt |-> purchases_db[p].purchasedAt]}

\* The patch that sets no field, for each entity with an update operation.
\* AdminUpdate has the one field role, which the handler reads as given.
EmptyPatch == <<>>

EmptyAdminPatch == [role |-> None]

\* An update with the empty patch, of a stored record, succeeds and leaves
\* every field but updatedAt as it was.
EmptyPatchKeeps ==
    /\ \A u \in DOMAIN users_db :
         update_user(u, EmptyPatch)
         => /\ last'.status = 200
            /\ DOMAIN users_db'[u] = DOMAIN users_db[u]
            /\ \A f \in DOMAIN users_db[u] \ {"updatedAt"} :
                 users_db'[u][f] = users_db[u][f]
    /\ \A s \in DOMAIN songs_db :
         update_song(s, EmptyPatch)
         => /\ last'.status = 200
            /\ DOMAIN songs_db'[s] = DOMAIN songs_db[s]
            /\ \A f \in DOMAIN songs_db[s] \ {"updatedAt"} :
                 songs_db'[s][f] = songs_db[s][f]
    /\ \A g \in DOMAIN gameplay_sessions_db :
         update_gameplay_session(g, EmptyPatch)
         => /\ last'.status = 200
            /\ gameplay_sessions_db'[g] = gameplay_sessions_db[g]
    /\ \A p \in DOMAIN purchases_db :
         update_purchase(p, EmptyPatch)
         => /\ last'.status = 200
            /\ purchases_db'[p] = purchases_db[p]
    /\ \A a \in DOMAIN admins_db :
         update_admin_role(a, EmptyAdminPatch)
         => /\ last'.status = 200
            /\ admins_db'[a] = admins_db[a]

\* C14 as stated: an update with an empty patch leaves every field of the
\* record unchanged except updatedAt (users and songs), which becomes
\* strictly later than its previous value.
C14_UpdatedAtStrictlyLater ==
    [][/\ EmptyPatchKeeps
       /\ \A u \in DOMAIN users_db :
            update_user(u, EmptyPatch)
            => users_db'[u].updatedAt > users_db[u].updatedAt
       /\ \A s \in DOMAIN songs_db :
            update_song(s, EmptyPatch)
            => songs_db'[s].updatedAt > songs_db[s].updatedAt]_vars

\* C14, amended: an update with an empty patch leaves every field of the
\* record unchanged except updatedAt (users and songs), which is set to the
\* clock reading of the update: not earlier than its previous value (the
\* clock not going back), and equal to it when the clock has not advanced.
C14_EmptyPatchKeepsFields ==
    [][/\ EmptyPatchKeeps
       /\ \A u \in DOMAIN users_db :
            update_user(u, EmptyPatch)
            => /\ users_db'[u].updatedAt = clock'
               /\ users_db'[u].updatedAt >= users_db[u].updatedAt
               /\ clock' = clock => users_db'[u].updatedAt = clock
       /\ \A s \in DOMAIN songs_db :
            update_song(s, EmptyPatch)
            => /\ songs_db'[s].updatedAt = clock'
               /\ songs_db'[s].updatedAt >= songs_db[s].updatedAt
               /\ clock' = clock => songs_db'[s].updatedAt = clock]_vars

\* A song has just been updated with the empty patch (it is still
\* unpublished) and its updatedAt has moved past its createdAt.
C14_Witness ==
    /\ last.op = "update_song"
    /\ last.status = 200
    /\ \E s \in DOMAIN songs_db :
         /\ ~songs_db[s].isPublished
         /\ songs_db[s].createdAt = 0
         /\ songs_db[s].updatedAt = 1

\* C15: delete_user, delete_song and delete_admin with a key that is not in
\* the table (never created, or deleted before) fail with NotFound (404) and
\* leave every table as it is.
C15_DeleteMissingFails ==
    [][/\ \A u \in UserIds :
            (delete_user(u) /\ u \notin DOMAIN users_db)
            => (last'.status = 404 /\ tables' = tables)
       /\ \A s \in SongIds :
            (delete_song(s) /\ s \notin DOMAIN songs_db)
            => (last'.status = 404 /\ tables' = tables)
       /\ \A a \in AdminIds :
            (delete_admin(a) /\ a \notin DOMAIN admins_db)
            => (last'.status = 404 /\ tables' = tables)]_vars

\* The one admin record ever created has been deleted, and a second
\* delete_admin has just been refused.
C15_Witness ==
    /\ last = [op |-> "delete_admin", status |-> 404,
               detail |-> "Admin entry not found", body |-> None]
    /\ issued.admins = 1
    /\ admins_db = Empty
    /\ users_db # Empty

\* C16: grant_user_entitlement with a path user id different from the body's
\* userId fails with InvalidReference (400) and leaves every table as it is,
\* whether or not the users or the song are stored and whether or not the
\* body's pair has an entitlement.
C16_MismatchFirst ==
    [][\A u \in UserIds, d \in UserEntitlementCreate :
         (grant_user_entitlement(u, d) /\ u # d.userId)
         => /\ last'.status = 400
            /\ last'.detail = "User ID in path does not match user ID in body"
            /\ tables' = tables]_vars

\* A grant has just been refused for the mismatch while no user is stored
\* (NotFound would apply) and every pair has an entitlement (so would
\* Conflict).
C16_Witness ==
    /\ last.op = "grant_user_entitlement"
    /\ last.status = 400
    /\ users_db = Empty
    /\ \A u \in UserIds, s \in SongIds :
         EntitlementsFor(user_entitlements_db, u, s) # {}

\* C17: a delete_user or delete_song of a stored key succeeds (204), removes
\* that one record from its table and leaves every other record and every
\* other table as it is, also when other records reference the deleted key.
C17_DeleteOnlyOwnRecord ==
    [][/\ \A u \in UserIds :
            (delete_user(u) /\ u \in DOMAIN users_db)
            => /\ last'.status = 204
               /\ DOMAIN users_db' = DOMAIN users_db \ {u}
               /\ \A k \in DOMAIN users_db' : users_db'[k] = users_db[k]
               /\ UNCHANGED <<songs_db, user_entitlements_db,
                              gameplay_sessions_db, performance_metrics_db,
                              purchases_db, admins_db>>
       /\ \A s \in SongIds :
            (delete_song(s) /\ s \in DOMAIN songs_db)
            => /\ last'.status = 204
               /\ DOMAIN songs_db' = DOMAIN songs_db \ {s}
               /\ \A k \in DOMAIN songs_db' : songs_db'[k] = songs_db[k]
               /\ UNCHANGED <<users_db, user_entitlements_db,
                              gameplay_sessions_db, performance_metrics_db,
                              purchases_db, admins_db>>]_vars

\* A user has just been deleted; a gameplay session of that user, with its
\* metric, is still stored.
C17_Witness ==
    /\ last.op = "delete_user"
    /\ last.status = 204
    /\ \E g \in DOMAIN gameplay_sessions_db :
         /\ gameplay_sessions_db[g].userId \notin DOMAIN users_db
         /\ g \in DOMAIN performance_metrics_db

\* C18: a stored metric stays stored, with every field as it was, in every
\* step of every handler; and a successful submit_performance_metrics stores
\* the metric with the submitted values.
C18_MetricImmutable ==
    /\ [][\A g \in DOMAIN performance_metrics_db :
            /\ g \in DOMAIN performance_metrics_db'
            /\ performance_metrics_db'[g] = performance_metrics_db[g]]_vars
    /\ [][\A g \in SessionIds, d \in PerformanceMetricCreate :
            (submit_performance_metrics(g, d) /\ last'.status = 201)
            => /\ g \in DOMAIN performance_metrics_db'
               /\ performance_metrics_db'[g].sessionId = g
               /\ performance_metrics_db'[g].submittedAt = clock'
               /\ \A f \in DOMAIN d : performance_metrics_db'[g][f] = d[f]]_vars

\* The metric submitted at time 0 is still stored after its session was
\* read and then updated, its user and song were deleted and the clock
\* moved on.
C18_Witness ==
    /\ clock = 1
    /\ users_db = Empty
    /\ songs_db = Empty
    /\ \E g \in DOMAIN performance_metrics_db :
         /\ performance_metrics_db[g].submittedAt = 0
         /\ performance_metrics_db[g].score = 10
         /\ gameplay_sessions_db[g].isSynced
         /\ gameplay_sessions_db[g].performance
              = Some(performance_metrics_db[g])

\* The fields an update operation may change.
SessionPatchable == {"endedAt", "deviceInfo", "isSynced"}

PurchasePatchable ==
    {"priceCents", "currency", "paymentProcessor", "paymentReference", "refunded"}

AdminPatchable == {"role"}

\* C19: every record is stored under its own key (a table key k holds the
\* record with id k, an entitlement's key is that of its userId and songId,
\* a metric's key is its sessionId), and no update operation changes a
\* record's id, creation timestamp or foreign keys: update_user and
\* update_song keep id and createdAt, update_gameplay_session changes at most
\* endedAt, deviceInfo and isSynced, update_purchase at most priceCents,
\* currency, paymentProcessor, paymentReference and refunded,
\* update_admin_role at most role.
C19_KeysAndFrozenFields ==
    /\ [](/\ \A k \in DOMAIN users_db : users_db[k].id = k
          /\ \A k \in DOMAIN songs_db : songs_db[k].id = k
          /\ \A k \in DOMAIN gameplay_sessions_db : gameplay_sessions_db[k].id = k
          /\ \A k \in DOMAIN purchases_db : purchases_db[k].id = k
          /\ \A k \in DOMAIN admins_db : admins_db[k].id = k
          /\ \A k \in DOMAIN user_entitlements_db :
               k = <<user_entitlements_db[k].userId, "-",
                     user_entitlements_db[k].songId>>
          /\ \A k \in DOMAIN performance_metrics_db :
               performance_metrics_db[k].sessionId = k)
    /\ [][/\ \A u \in DOMAIN users_db, d \in UserUpdate :
               update_user(u, d)
               => /\ users_db'[u].id = users_db[u].id
                  /\ users_db'[u].createdAt = users_db[u].createdAt
          /\ \A s \in DOMAIN songs_db, d \in SongUpdate :
               update_song(s, d)
               => /\ songs_db'[s].id = songs_db[s].id
                  /\ songs_db'[s].createdAt = songs_db[s].createdAt
          /\ \A g \in DOMAIN gameplay_sessions_db, d \in GameplaySessionUpdate :
               update_gameplay_session(g, d)
               => /\ DOMAIN gameplay_sessions_db'[g] = DOMAIN gameplay_sessions_db[g]
                  /\ \A f \in DOMAIN gameplay_sessions_db[g] \ SessionPatchable :
                       gameplay_sessions_db'[g][f] = gameplay_sessions_db[g][f]
          /\ \A p \in DOMAIN purchases_db, d \in PurchaseUpdate :
               update_purchase(p, d)
               => /\ DOMAIN purchases_db'[p] = DOMAIN purchases_db[p]
                  /\ \A f \in DOMAIN purchases_db[p] \ PurchasePatchable :
                       purchases_db'[p][f] = purchases_db[p][f]
          /\ \A a \in DOMAIN admins_db, d \in AdminUpdate :
               update_admin_role(a, d)
               => /\ DOMAIN admins_db'[a] = DOMAIN admins_db[a]
                  /\ \A f \in DOMAIN admins_db[a] \ AdminPatchable :
                       admins_db'[a][f] = admins_db[a][f]]_vars

\* A session started at time 0 has just been updated (it is synced now)
\* after the clock moved on; it still has its startedAt and references.
C19_Witness ==
    /\ last.op = "update_gameplay_session"
    /\ last.status = 200
    /\ clock = 1
    /\ \E g \in DOMAIN gameplay_sessions_db :
         /\ gameplay_sessions_db[g].isSynced
         /\ gameplay_sessions_db[g].startedAt = 0
         /\ gameplay_sessions_db[g].id = g
         /\ gameplay_sessions_db[g].userId \in DOMAIN users_db
         /\ gameplay_sessions_db[g].songId \in DOMAIN songs_db

====
